---- MODULE Spec2Model ----
(***************************************************************************)
(* A model of the finance monitoring agent: the orchestrator main()        *)
(* (src/src/main.py) and the fetchers it calls (src/src/tools.py).         *)
(*                                                                         *)
(* Python values are tagged records: the field t names the Python type.    *)
(* A Python str that the code inspects (tickers, URLs) is a sequence of    *)
(* characters, so that startswith and emptiness are computed, the text an  *)
(* f-string adds being kept as one element.                                *)
(***************************************************************************)
EXTENDS Integers, Sequences, FiniteSets, TLC

VARIABLES
    _client,          \* tools.py:8   the module-level ApifyClient
    pc,               \* where main() is
    actor_input,      \* main.py:50   Actor.get_input()
    start_date,       \* main.py:60
    end_date,         \* main.py:59
    company_info,     \* main.py:67   what company_finder.run returned
    init_charges,     \* the counts of the 'init' charges emitted
    llm_charges,      \* the counts of the '1k-llm-tokens' charges emitted, in order
    calls,            \* every fetcher coroutine of the run, in creation order
    tasks,            \* main.py:90   the indices (in calls) of the gathered tasks
    linkedin_task,    \* main.py:116  None or the coroutine (its index in calls)
    crunchbase_task,  \* main.py:117  None or the coroutine (its index in calls)
    results,          \* main.py:132  what asyncio.gather returned
    company_data,     \* main.py:135
    sp500_data,       \* main.py:136
    sector_data,      \* main.py:137
    linkedin_data,    \* main.py:138
    crunchbase_data,  \* main.py:139
    slot_writes,      \* how often the assembly loop assigned each slot
    additional_context, \* main.py:184
    writer_runs,      \* the prompts finance_writer.run was invoked with
    writer_result,    \* main.py:198
    report_writes,    \* main.py:211 the set_value calls of main that succeeded
    pushed,           \* the records given to Actor.push_data, in order
    error             \* the exception that ended main(), if any

vars == <<_client, pc, actor_input, start_date, end_date, company_info,
          init_charges, llm_charges, calls, tasks, linkedin_task,
          crunchbase_task, results, company_data, sp500_data, sector_data,
          linkedin_data, crunchbase_data, slot_writes, additional_context,
          writer_runs,
          writer_result, report_writes, pushed, error>>

-----------------------------------------------------------------------------
(* Bounds of the model and the inputs it draws.                            *)

\* The most items a remote job's dataset holds.
MaxItems == 2

\* The most tokens a call of the language model reports.
MaxTokens == 3000

\* The day datetime.now() falls on, as a day number.
Now == 100

GSPC == <<"^", "G", "S", "P", "C">>
XLK == <<"^", "X", "L", "K">>
ACME == <<"A", "C", "M", "E">>
EmptyStr == <<>>

CompanyTickers == {ACME}
PastDaysInputs == {7}
\* main.py:55  past_days when the input has none
DefaultPastDays == 30
SectorChoices == {EmptyStr, XLK}
LinkedinChoices == {EmptyStr, <<"l", "i">>}
CrunchbaseChoices == {EmptyStr, <<"c", "b">>}
TokenChoices == {1000, 2500}
ReportChoices == {"", "# Report"}

-----------------------------------------------------------------------------
(* Python values.                                                          *)

None == [t |-> "None"]
Exception(kind) == [t |-> "Exception", kind |-> kind]
List(items) == [t |-> "list", items |-> items]

\* bool(v): None, the empty list and the empty str are false; a pydantic
\* model defines neither __bool__ nor __len__, so every instance is true.
Truthy(v) ==
    CASE v.t = "None" -> FALSE
      [] v.t = "list" -> Len(v.items) > 0
      [] v.t = "str" -> Len(v.chars) > 0
      [] OTHER -> TRUE

\* str truthiness, for the resolver's fields (main.py:106,119,125).
StrTruthy(s) == Len(s) > 0

\* Whether v has model_dump / model_dump_json: only pydantic models do.
IsModel(v) == v.t \in {"YahooFinanceData", "LinkedInData"}

\* dict.get(key, default)
Get(d, k, default) == IF k \in DOMAIN d THEN d[k] ELSE default

\* n // 1000: the thousands of tokens, rounded down.
FloorDiv1000(n) == n \div 1000

\* math.ceil(n / 1000) for a non-negative int n
CeilDiv1000(n) == (n + 999) \div 1000

-----------------------------------------------------------------------------
(* What the remote jobs can answer.  A remote job either raises or leaves  *)
(* a dataset of 0..MaxItems items.                                          *)

EmptyDict == [k \in {} |-> 0]

\* An item of harvest/yahoo-finance-scraper with every field the code reads.
FullPayload ==
    [results |->
        [summaryDetail |->
            [previousClose |-> 10, marketCap |-> 5,
             priceToSalesTrailing12Months |-> 2, trailingPE |-> 3,
             forwardPE |-> 4, payoutRatio |-> 1, beta |-> 6],
         price |->
            [regularMarketPrice |-> 11, symbol |-> <<"S", "Y", "M">>,
             shortName |-> <<"Short">>, longName |-> <<"Long">>,
             currency |-> "EUR", marketCap |-> 5]],
     chart |-> [quotes |-> <<[date |-> "q1", close |-> 11], EmptyDict>>],
     news |-> <<[uuid |-> "n1", title |-> "News"]>>]

\* An item whose optional fields are all missing.
SparsePayload ==
    [results |-> [summaryDetail |-> EmptyDict, price |-> EmptyDict],
     chart |-> [quotes |-> <<>>]]

\* An item without the "results" key: reading it raises KeyError.
MalformedPayload == [news |-> <<>>]

\* An item with its figures but without the "chart" key the code reads.
NoChartPayload == [results |-> FullPayload.results, news |-> <<>>]

YahooItems == {"full", "sparse", "malformed", "nochart"}
YahooItem(id) ==
    CASE id = "full" -> FullPayload
      [] id = "sparse" -> SparsePayload
      [] id = "malformed" -> MalformedPayload
      [] id = "nochart" -> NoChartPayload

\* Items of icypeas_official/linkedin-company-scraper.
LinkedinFull ==
    [data |-> <<[result |->
        [name |-> "Acme", description |-> "Makes things",
         industry |-> "Tools", numberOfEmployees |-> 12,
         website |-> "acme.example",
         specialties |-> <<[value |-> "anvils"], [value |-> "rockets"]>>,
         address |-> [t |-> "dict",
                      parts |-> [streetAddress |-> "1 Road",
                                 addressLocality |-> "",
                                 addressCountry |-> "US"]]]]>>]
LinkedinSparse == [data |-> <<[result |-> EmptyDict]>>]
LinkedinMalformed == [data |-> <<>>]
LinkedinItems == {"full", "sparse", "malformed"}
LinkedinItem(id) ==
    CASE id = "full" -> LinkedinFull
      [] id = "sparse" -> LinkedinSparse
      [] id = "malformed" -> LinkedinMalformed

\* Items of harvest/crunchbase-company-details-scraper: passed through.
CrunchbaseItems == {"org"}
CrunchbaseItem(id) == [name |-> "Acme Inc"]

\* Items of apify/rag-web-browser: a non-dict, or a dict with an optional
\* searchResult (a dict of optional title, url, description, or something
\* else) and an optional markdown text.
SearchItems ==
    {"nondict", "bare", "markdown", "meta", "both", "blank", "url", "badmeta"}
SearchMeta ==
    [t |-> "dict",
     fields |-> [title |-> "Acme", url |-> "acme.example",
                 description |-> "About Acme"]]
SearchItem(id) ==
    CASE id = "nondict" -> [t |-> "str", fields |-> EmptyDict]
      [] id = "bare" -> [t |-> "dict", fields |-> EmptyDict]
      [] id = "markdown" -> [t |-> "dict", fields |-> [markdown |-> "Text"]]
      [] id = "meta" -> [t |-> "dict", fields |-> [searchResult |-> SearchMeta]]
      [] id = "both" ->
            [t |-> "dict",
             fields |-> [searchResult |-> SearchMeta, markdown |-> "Body"]]
      [] id = "blank" -> [t |-> "dict", fields |-> [markdown |-> ""]]
      [] id = "url" ->
            [t |-> "dict",
             fields |-> [searchResult |->
                            [t |-> "dict", fields |-> [url |-> "u.example"]],
                         markdown |-> "Page"]]
      [] id = "badmeta" ->
            [t |-> "dict",
             fields |-> [searchResult |-> [t |-> "str", fields |-> EmptyDict]]]

\* The items a remote job can leave, by the fetcher that reads them.
Items(fn) ==
    CASE fn = "yahoo" -> YahooItems
      [] fn = "linkedin" -> LinkedinItems
      [] fn = "crunchbase" -> CrunchbaseItems
      [] fn = "search" -> SearchItems

\* Datasets of 0..MaxItems items.  search_google reads every item; the
\* other fetchers read items[0] only, so there the later items repeat it.
Datasets(fn) ==
    IF fn = "search"
    THEN UNION {[1..n -> Items(fn)] : n \in 0..MaxItems}
    ELSE {<<>>} \cup {[i \in 1..n |-> p] : n \in 1..MaxItems, p \in Items(fn)}

\* What _client.actor(..).call(..) followed by .list_items() does.
RemoteOutcomes(fn) ==
    {[raised |-> TRUE, items |-> <<>>]}
        \cup {[raised |-> FALSE, items |-> d] : d \in Datasets(fn)}

\* The answers drawn in a run of main(): the job raises, leaves nothing, or
\* leaves well-formed items.
RunOutcomes(fn) ==
    {o \in RemoteOutcomes(fn) :
        \A i \in 1..Len(o.items) : o.items[i] \in {"full", "org"}}

-----------------------------------------------------------------------------
(* tools.py: get_yahoo_finance_data                                        *)

\* No ticker is taken for an index.
never_index(ticker) == FALSE

\* tools.py:32
is_index(ticker) == Len(ticker) > 0 /\ ticker[1] = "^"

\* tools.py:48-127  the snapshot built from the first item, or the
\* exception that reading a missing key raises.
YahooFinanceData(data, ticker, start, end) ==
    IF \/ "results" \notin DOMAIN data
       \/ "summaryDetail" \notin DOMAIN data.results
       \/ "price" \notin DOMAIN data.results
       \/ "chart" \notin DOMAIN data
       \/ "quotes" \notin DOMAIN data.chart
    THEN Exception("KeyError")
    ELSE
        LET sd == data.results.summaryDetail
            pd == data.results.price
            qs == data.chart.quotes
            ns == Get(data, "news", <<>>)
            company(v) == IF ~is_index(ticker) THEN v ELSE 0
        IN  [t |-> "YahooFinanceData",
             summary_detail |->
                [previous_close |-> Get(sd, "previousClose", 0),
                 market_cap |-> company(Get(sd, "marketCap", 0)),
                 price_to_sales_trailing_12_months |->
                     company(Get(sd, "priceToSalesTrailing12Months", 0)),
                 trailing_pe |-> company(Get(sd, "trailingPE", 0)),
                 forward_pe |-> company(Get(sd, "forwardPE", 0)),
                 payout_ratio |-> company(Get(sd, "payoutRatio", 0)),
                 beta |-> company(Get(sd, "beta", 0))],
             price |->
                [regular_market_price |-> Get(pd, "regularMarketPrice", 0),
                 symbol |-> Get(pd, "symbol", ticker),
                 short_name |-> Get(pd, "shortName", <<>>),
                 long_name |-> Get(pd, "longName", <<>>),
                 currency |-> Get(pd, "currency", "USD"),
                 market_cap |-> company(Get(pd, "marketCap", 0))],
             quotes |-> [i \in 1..Len(qs) |->
                            [date |-> Get(qs[i], "date", ""),
                             close |-> Get(qs[i], "close", 0)]],
             news |-> [i \in 1..Len(ns) |->
                            [uuid |-> Get(ns[i], "uuid", ""),
                             title |-> Get(ns[i], "title", "")]],
             ticker |-> ticker,
             start_date |-> start,
             end_date |-> end]

\* A zero-filled snapshot that names no ticker and no dates.
BlankYahooFinanceData(ticker, start, end) ==
    [t |-> "YahooFinanceData",
     summary_detail |->
        [previous_close |-> 0, market_cap |-> 0,
         price_to_sales_trailing_12_months |-> 0, trailing_pe |-> 0,
         forward_pe |-> 0, payout_ratio |-> 0, beta |-> 0],
     price |->
        [regular_market_price |-> 0, symbol |-> <<>>,
         short_name |-> <<>>, long_name |-> <<>>,
         currency |-> "USD", market_cap |-> 0],
     quotes |-> <<>>,
     news |-> <<>>,
     ticker |-> <<>>,
     start_date |-> 0,
     end_date |-> 0]

\* tools.py:141-194  the zero-filled snapshot of the except branch
DefaultYahooFinanceData(ticker, start, end) ==
    [t |-> "YahooFinanceData",
     summary_detail |->
        [previous_close |-> 0, market_cap |-> 0,
         price_to_sales_trailing_12_months |-> 0, trailing_pe |-> 0,
         forward_pe |-> 0, payout_ratio |-> 0, beta |-> 0],
     price |->
        [regular_market_price |-> 0, symbol |-> ticker,
         short_name |-> <<"Default (">> \o ticker \o <<")">>,
         long_name |-> <<"Default Index (">> \o ticker \o <<")">>,
         currency |-> "USD", market_cap |-> 0],
     quotes |-> <<>>,
     news |-> <<>>,
     ticker |-> ticker,
     start_date |-> start,
     end_date |-> end]

\* tools.py:132
yahoo_kv_key(ticker, start, end) == <<"yahoo_finance_", ticker, start, end>>

\* A fetcher coroutine that has not started: what calling an async def
\* gives.  pc is where the coroutine is; remote, items, charged and stored
\* record what it did (the remote job's answer and the items of its
\* dataset that the fetcher read, the tool_result charges it emitted, the
\* key-value writes that succeeded).
Coroutine(fn, args, phase) ==
    [fn |-> fn, args |-> args, phase |-> phase, pc |-> "pending",
     ret |-> None, local |-> None, remote |-> "none", items |-> <<>>,
     charge_arg |-> 0, charged |-> <<>>, stored |-> <<>>]

Raise(c, kind) == [c EXCEPT !.pc = "raised", !.ret = Exception(kind)]
Return(c, v) == [c EXCEPT !.pc = "returned", !.ret = v]
RemoteSeen(c, out) ==
    [c EXCEPT !.remote = IF out.raised THEN "raised"
                         ELSE IF Len(out.items) = 0 THEN "empty"
                         ELSE "items",
              !.items = IF c.fn = "search" \/ Len(out.items) = 0
                        THEN out.items ELSE <<out.items[1]>>]

\* get_yahoo_finance_data without its except branch: a remote failure or an
\* empty dataset reaches the caller.
get_yahoo_finance_data_unguarded(c, client, out) ==
    LET a == c.args
        seen == RemoteSeen(c, out)
    IN  IF ~Truthy(client) THEN Raise(c, "ValueError")
        ELSE IF out.raised THEN Raise(seen, "RemoteError")
        ELSE IF Len(out.items) = 0 THEN Raise(seen, "ValueError")
        ELSE LET y == YahooFinanceData(YahooItem(out.items[1]), a.ticker,
                                       a.start_date, a.end_date)
             IN  IF y.t = "Exception" THEN Raise(seen, "KeyError")
                 ELSE [seen EXCEPT !.pc = "store", !.local = y]

\* tools.py:26-127 and 141-194  from the call to the first await: the
\* client check, the remote job, the normalisation; every exception of the
\* try block ends in the default snapshot.
get_yahoo_finance_data(c, client, out) ==
    LET a == c.args
        default == DefaultYahooFinanceData(a.ticker, a.start_date, a.end_date)
        seen == RemoteSeen(c, out)
    IN  IF ~Truthy(client) THEN Raise(c, "ValueError")
        ELSE IF out.raised \/ Len(out.items) = 0 THEN Return(seen, default)
        ELSE LET y == YahooFinanceData(YahooItem(out.items[1]), a.ticker,
                                       a.start_date, a.end_date)
             IN  IF y.t = "Exception" THEN Return(seen, default)
                 ELSE [seen EXCEPT !.pc = "store", !.local = y]

\* The write without its own try block: a failure is caught by the except
\* branch of the function and ends in the default snapshot.
yahoo_store_strict(c, ok) ==
    LET a == c.args
        write == [key |-> yahoo_kv_key(a.ticker, a.start_date, a.end_date),
                  value |-> c.local]
    IN  IF ok
        THEN [c EXCEPT !.pc = "charge", !.charge_arg = 1,
                       !.stored = Append(@, write)]
        ELSE Return(c, DefaultYahooFinanceData(a.ticker, a.start_date,
                                               a.end_date))

\* tools.py:129-135  the best-effort write; a failure is swallowed.
yahoo_store(c, ok) ==
    LET a == c.args
        write == [key |-> yahoo_kv_key(a.ticker, a.start_date, a.end_date),
                  value |-> c.local]
    IN  [c EXCEPT !.pc = "charge", !.charge_arg = 1,
                  !.stored = IF ok THEN Append(@, write) ELSE @]

-----------------------------------------------------------------------------
(* tools.py: get_linkedin_company_profile                                  *)

\* Optional[T]: <<>> is None, <<v>> is the value v.
OptGet(d, k) == IF k \in DOMAIN d THEN <<d[k]>> ELSE <<>>

EmptyLinkedInData ==
    [t |-> "LinkedInData", name |-> <<>>, description |-> <<>>,
     industry |-> <<>>, employees |-> <<>>, website |-> <<>>,
     specialties |-> <<>>, address |-> <<>>]

AddressKeys ==
    <<"streetAddress", "addressLocality", "addressRegion", "postalCode",
      "addressCountry">>

RECURSIVE Join(_, _)
Join(sep, parts) ==
    IF Len(parts) = 0 THEN <<>>
    ELSE IF Len(parts) = 1 THEN <<parts[1]>>
    ELSE <<parts[1], sep>> \o Join(sep, Tail(parts))

\* tools.py:224-237
FormatAddress(item) ==
    IF "address" \notin DOMAIN item THEN <<>>
    ELSE IF item.address.t = "dict"
    THEN LET d == item.address.parts
             present == SelectSeq(AddressKeys,
                                  LAMBDA k : k \in DOMAIN d /\ d[k] # "")
         IN  <<Join(", ", [i \in 1..Len(present) |-> d[present[i]]])>>
    ELSE <<item.address.chars>>

\* tools.py:221-248  the profile built from the first item, or the
\* exception that reading ['data'][0]['result'] raises.
LinkedInData(first) ==
    IF \/ "data" \notin DOMAIN first
       \/ Len(first.data) = 0
       \/ "result" \notin DOMAIN first.data[1]
    THEN Exception("KeyError")
    ELSE LET item == first.data[1].result
             sp == Get(item, "specialties", <<>>)
         IN  [t |-> "LinkedInData",
              name |-> OptGet(item, "name"),
              description |-> OptGet(item, "description"),
              industry |-> OptGet(item, "industry"),
              employees |-> OptGet(item, "numberOfEmployees"),
              website |-> OptGet(item, "website"),
              specialties |-> [i \in 1..Len(sp) |-> sp[i].value],
              address |-> FormatAddress(item)]

\* tools.py:207-254  from the call to the first await.
get_linkedin_company_profile(c, client, out) ==
    LET seen == RemoteSeen(c, out)
    IN  IF ~Truthy(client) THEN Raise(c, "ValueError")
        ELSE IF out.raised THEN Return(seen, EmptyLinkedInData)
        ELSE IF Len(out.items) > 0
        THEN LET d == LinkedInData(LinkedinItem(out.items[1]))
             IN  IF d.t = "Exception" THEN Return(seen, EmptyLinkedInData)
                 ELSE Return(seen, d)
        ELSE [seen EXCEPT !.pc = "charge", !.charge_arg = 1,
                          !.local = EmptyLinkedInData]

-----------------------------------------------------------------------------
(* tools.py: get_crunchbase_company_details                                *)

\* tools.py:323-344  from the call to the first await; nothing catches
\* what the remote job raises.
get_crunchbase_company_details(c, client, out) ==
    LET seen == RemoteSeen(c, out)
    IN  IF ~Truthy(client) THEN Raise(c, "ValueError")
        ELSE IF out.raised THEN Raise(seen, "RemoteError")
        ELSE IF Len(out.items) > 0
        THEN [seen EXCEPT !.pc = "charge", !.charge_arg = 1,
                          !.local = List(<<CrunchbaseItem(out.items[1])>>)]
        ELSE [seen EXCEPT !.pc = "charge", !.charge_arg = 0,
                          !.local = List(<<>>)]

-----------------------------------------------------------------------------
(* tools.py: search_google                                                 *)

\* tools.py:271  the hard maximum of max_results
MaxResultsCap == 10

Min(a, b) == IF a < b THEN a ELSE b

\* tools.py:289-304  the text of one dict item, as the sequence of its
\* pieces; <<>> is the empty str.
formatted_result(item) ==
    LET f == item.fields
        meta == IF "searchResult" \in DOMAIN f /\ f.searchResult.t = "dict"
                THEN f.searchResult.fields ELSE EmptyDict
        piece(k, before, after) ==
            IF k \in DOMAIN meta THEN <<before, meta[k], after>> ELSE <<>>
        content == IF "markdown" \in DOMAIN f /\ f.markdown # ""
                   THEN <<"Content:\n", f.markdown, "\n">> ELSE <<>>
    IN  piece("title", "# ", "\n\n") \o piece("url", "URL: ", "\n\n")
            \o piece("description", "Description: ", "\n\n") \o content

\* The loop without its tests: one block per item, empty or not.
FormatResultsKeepingAll(items) ==
    [i \in 1..Len(items) |-> formatted_result(SearchItem(items[i]))]

\* tools.py:282-307  the loop over list_page.items
RECURSIVE FormatResults(_)
FormatResults(items) ==
    IF Len(items) = 0 THEN <<>>
    ELSE LET item == SearchItem(items[1])
             rest == FormatResults(Tail(items))
         IN  IF item.t # "dict" THEN rest
             ELSE IF Len(formatted_result(item)) > 0
             THEN <<formatted_result(item)>> \o rest
             ELSE rest

\* search_google charging for every item of the dataset.
search_google_per_item(c, client, out) ==
    LET seen == RemoteSeen(c, out)
    IN  IF ~Truthy(client) THEN Raise(c, "ValueError")
        ELSE IF out.raised THEN Raise(seen, "RemoteError")
        ELSE [seen EXCEPT !.pc = "charge", !.charge_arg = Len(out.items),
                          !.local = List(FormatResults(out.items))]

\* tools.py:268-311  from the call to the first await; nothing catches
\* what the remote job raises.
search_google(c, client, out) ==
    LET seen == RemoteSeen(c, out)
        found == FormatResults(out.items)
    IN  IF ~Truthy(client) THEN Raise(c, "ValueError")
        ELSE IF out.raised THEN Raise(seen, "RemoteError")
        ELSE [seen EXCEPT !.pc = "charge", !.charge_arg = Len(found),
                          !.local = List(found)]

\* tools.py:273-277
search_run_input(args) ==
    [query |-> args.query, maxResults |-> Min(args.max_results, MaxResultsCap)]

-----------------------------------------------------------------------------
(* The steps of a fetcher coroutine: one per stretch between awaits.       *)

\* A fetcher without the test of _client: it goes on to the remote job.
fetch_enter_unchecked(c, client) == [c EXCEPT !.pc = "remote"]

\* tools.py:26-27, 207-208, 268-269, 323-324  the call of a fetcher up to
\* its remote job: without a client it raises at once, with one it goes on
\* to _client.actor(..).call(..).
fetch_enter(c, client) ==
    IF ~Truthy(client) THEN Raise(c, "ValueError") ELSE [c EXCEPT !.pc = "remote"]

\* The remote job answered: the fetcher runs on to its first await.
fetch_start(c, client, out) ==
    CASE c.fn = "yahoo" -> get_yahoo_finance_data(c, client, out)
      [] c.fn = "linkedin" -> get_linkedin_company_profile(c, client, out)
      [] c.fn = "crunchbase" -> get_crunchbase_company_details(c, client, out)
      [] c.fn = "search" -> search_google(c, client, out)

\* tools.py:138-139, 249-250, 339-340, 343-344  await Actor.charge, return
fetch_charge(c) ==
    [c EXCEPT !.pc = "returned", !.ret = c.local,
              !.charged = Append(@, c.charge_arg)]

Terminal(c) == c.pc \in {"returned", "raised"}

-----------------------------------------------------------------------------
(* main.py: main                                                           *)

ApifyClient == [t |-> "ApifyClient"]
TaskRef(i) == [t |-> "coroutine", index |-> i]

Slots ==
    {"company_data", "sp500_data", "sector_data", "linkedin_data",
     "crunchbase_data"}

\* An assembly whose fourth and fifth results share the LinkedIn slot.
SlotOfShared(i, li_task, cb_task) ==
    IF i = 0 THEN "company_data"
    ELSE IF i = 1 THEN "sp500_data"
    ELSE IF i = 2 THEN "sector_data"
    ELSE "linkedin_data"

\* main.py:147-158  the slot that result i (counted from 0) is assigned to,
\* "" when no branch takes it.
SlotOf(i, li_task, cb_task) ==
    IF i = 0 THEN "company_data"
    ELSE IF i = 1 THEN "sp500_data"
    ELSE IF i = 2 THEN "sector_data"
    ELSE IF i = 3 /\ Truthy(li_task) THEN "linkedin_data"
    ELSE IF i = 3 /\ Truthy(cb_task) /\ ~Truthy(li_task) THEN "crunchbase_data"
    ELSE IF i = 4 /\ Truthy(li_task) /\ Truthy(cb_task) THEN "crunchbase_data"
    ELSE ""

\* main.py:142-158  the loop over enumerate(results), from index i on:
\* acc.data maps each slot to its value, acc.writes counts the assignments.
RECURSIVE Assemble(_, _, _, _, _)
Assemble(i, res, li_task, cb_task, acc) ==
    IF i >= Len(res) THEN acc
    ELSE LET r == res[i + 1]
             slot == SlotOf(i, li_task, cb_task)
             next == IF r.t = "Exception" \/ slot = "" THEN acc
                     ELSE [data |-> [acc.data EXCEPT ![slot] = r],
                           writes |-> [acc.writes EXCEPT ![slot] = @ + 1]]
         IN  Assemble(i + 1, res, li_task, cb_task, next)

\* model_dump_json(): the JSON text of a model, kept as the value it encodes.
model_dump_json(v) == [t |-> "str", json |-> v]

\* model_dump(): the dict of a model's fields.
model_dump(v) == [k \in DOMAIN v \ {"t"} |-> v[k]]

\* main.py:210
report_key(ticker, start, end) == <<"market_report_", ticker, start, end, ".md">>

YahooArgs(ticker) ==
    [end_date |-> end_date, start_date |-> start_date, ticker |-> ticker]

\* main.py:50-60 without the charge of line 52.
MainStartUncharged ==
    /\ pc = "start"
    /\ end_date' = Now
    /\ start_date' = Now - Get(actor_input, "past_days", DefaultPastDays)
    /\ pc' = "resolve"
    /\ UNCHANGED <<_client, actor_input, company_info, init_charges,
                   llm_charges, calls,
                   tasks, linkedin_task, crunchbase_task, results,
                   company_data, sp500_data, sector_data, linkedin_data,
                   crunchbase_data, slot_writes, additional_context,
                   writer_runs, writer_result, report_writes, pushed, error>>

\* main.py:50-60
MainStart ==
    /\ pc = "start"
    /\ init_charges' = Append(init_charges, 1)
    /\ end_date' = Now
    /\ start_date' = Now - Get(actor_input, "past_days", DefaultPastDays)
    /\ pc' = "resolve"
    /\ UNCHANGED <<_client, actor_input, company_info, llm_charges, calls,
                   tasks, linkedin_task, crunchbase_task, results,
                   company_data, sp500_data, sector_data, linkedin_data,
                   crunchbase_data, slot_writes, additional_context,
                   writer_runs, writer_result, report_writes, pushed, error>>

\* main.py:67-69  company_finder.run returns a CompanyLinks and its usage.
MainResolve ==
    /\ pc = "resolve"
    /\ \E li \in LinkedinChoices, cb \in CrunchbaseChoices,
          sec \in SectorChoices, tok \in TokenChoices :
          company_info' =
              [t |-> "AgentRunResult",
               data |-> [linkedin_url |-> li, crunchbase_url |-> cb,
                         sector_index |-> sec],
               total_tokens |-> tok]
    /\ pc' = "charge_resolver"
    /\ UNCHANGED <<_client, actor_input, start_date, end_date, init_charges,
                   llm_charges, calls, tasks, linkedin_task, crunchbase_task,
                   results, company_data, sp500_data, sector_data,
                   linkedin_data, crunchbase_data, slot_writes,
                   additional_context, writer_runs, writer_result,
                   report_writes, pushed, error>>

\* main.py:67-69  company_finder.run raises (the model call or a tool of
\* the agent failed): nothing in main catches it.
MainResolveRaises ==
    /\ pc = "resolve"
    /\ pc' = "failed"
    /\ error' = Exception("company_finder")
    /\ UNCHANGED <<_client, actor_input, start_date, end_date, company_info,
                   init_charges, llm_charges, calls, tasks, linkedin_task,
                   crunchbase_task, results, company_data, sp500_data,
                   sector_data, linkedin_data, crunchbase_data, slot_writes,
                   additional_context, writer_runs, writer_result,
                   report_writes, pushed>>

\* main.py:72-73 left out: the fields are read without the charge.
MainResolverUncharged ==
    /\ pc = "charge_resolver"
    /\ pc' = "build_tasks"
    /\ UNCHANGED <<_client, actor_input, start_date, end_date, company_info,
                   init_charges, llm_charges, calls, tasks, linkedin_task,
                   crunchbase_task, results, company_data, sp500_data,
                   sector_data, linkedin_data, crunchbase_data, slot_writes,
                   additional_context, writer_runs, writer_result,
                   report_writes, pushed, error>>

\* main.py:72-73
MainChargeResolver ==
    /\ pc = "charge_resolver"
    /\ llm_charges' = Append(llm_charges, CeilDiv1000(company_info.total_tokens))
    /\ pc' = "build_tasks"
    /\ UNCHANGED <<_client, actor_input, start_date, end_date, company_info,
                   init_charges, calls, tasks, linkedin_task, crunchbase_task,
                   results, company_data, sp500_data, sector_data,
                   linkedin_data, crunchbase_data, slot_writes,
                   additional_context, writer_runs, writer_result,
                   report_writes, pushed, error>>

\* BuildTasks without the test of crunchbase_url: the Crunchbase task is
\* always created.
BuildTasksAlways(info, ticker) ==
    LET base == <<Coroutine("yahoo", YahooArgs(ticker), "fanout"),
                  Coroutine("yahoo", YahooArgs(GSPC), "fanout")>>
        sec == IF StrTruthy(info.sector_index)
               THEN <<Coroutine("yahoo", YahooArgs(info.sector_index), "fanout")>>
               ELSE <<>>
        li == IF StrTruthy(info.linkedin_url)
              THEN <<Coroutine("linkedin",
                               [linkedin_company_url |-> info.linkedin_url],
                               "fanout")>>
              ELSE <<>>
        cb == <<Coroutine("crunchbase",
                          [crunchbase_company_url |-> info.crunchbase_url],
                          "fanout")>>
    IN  [calls |-> base \o sec \o li \o cb,
         linkedin_task |-> IF Len(li) > 0 THEN TaskRef(Len(base \o sec) + 1)
                           ELSE None,
         crunchbase_task |-> TaskRef(Len(base \o sec \o li) + 1)]

\* main.py:76-129  the coroutines created, in the order of the tasks list.
BuildTasks(info, ticker) ==
    LET base == <<Coroutine("yahoo", YahooArgs(ticker), "fanout"),
                  Coroutine("yahoo", YahooArgs(GSPC), "fanout")>>
        sec == IF StrTruthy(info.sector_index)
               THEN <<Coroutine("yahoo", YahooArgs(info.sector_index), "fanout")>>
               ELSE <<>>
        li == IF StrTruthy(info.linkedin_url)
              THEN <<Coroutine("linkedin",
                               [linkedin_company_url |-> info.linkedin_url],
                               "fanout")>>
              ELSE <<>>
        cb == IF StrTruthy(info.crunchbase_url)
              THEN <<Coroutine("crunchbase",
                               [crunchbase_company_url |-> info.crunchbase_url],
                               "fanout")>>
              ELSE <<>>
    IN  [calls |-> base \o sec \o li \o cb,
         linkedin_task |-> IF Len(li) > 0 THEN TaskRef(Len(base \o sec) + 1)
                           ELSE None,
         crunchbase_task |-> IF Len(cb) > 0
                             THEN TaskRef(Len(base \o sec \o li) + 1)
                             ELSE None]

MainBuildTasks ==
    /\ pc = "build_tasks"
    /\ LET b == BuildTasks(company_info.data, actor_input.company_ticker)
       IN  /\ calls' = b.calls
           /\ tasks' = [i \in 1..Len(b.calls) |-> i]
           /\ linkedin_task' = b.linkedin_task
           /\ crunchbase_task' = b.crunchbase_task
    /\ pc' = "gather"
    /\ UNCHANGED <<_client, actor_input, start_date, end_date, company_info,
                   init_charges, llm_charges, results, company_data,
                   sp500_data, sector_data, linkedin_data, crunchbase_data,
                   slot_writes, additional_context, writer_runs,
                   writer_result, report_writes, pushed, error>>

\* The coroutines the event loop may run: the gathered tasks during the
\* gather, the awaited re-fetch during a re-fetch.
Runnable(i) ==
    \/ pc = "gather" /\ \E k \in 1..Len(tasks) : tasks[k] = i
    \/ pc \in {"refetch_sp500", "refetch_sector", "call"} /\ i = Len(calls)

main_vars ==
    <<_client, pc, actor_input, start_date, end_date, company_info,
      init_charges, llm_charges, tasks, linkedin_task, crunchbase_task,
      results, company_data, sp500_data, sector_data, linkedin_data,
      crunchbase_data, slot_writes, additional_context, writer_runs,
      writer_result, report_writes, pushed, error>>

\* _client is the synchronous ApifyClient: .call(..) and .list_items() are
\* not awaited, they block the thread of the event loop until the remote
\* job has answered.  While a coroutine is in them nothing else runs.
Blocked == \E j \in 1..Len(calls) : calls[j].pc = "remote"

\* A coroutine starts and reaches its remote job.  The event loop starts
\* the gathered tasks in the order gather was given them.
FetchStart(i) ==
    /\ Runnable(i)
    /\ ~Blocked
    /\ calls[i].pc = "pending"
    /\ \A j \in 1..(i - 1) : calls[j].pc # "pending"
    /\ calls' = [calls EXCEPT ![i] = fetch_enter(@, _client)]
    /\ UNCHANGED main_vars

\* tools.py:41-42, 216-217, 278-281, 330-333  the remote job answers and
\* the coroutine runs on to its first await.
FetchRemote(i) ==
    /\ Runnable(i)
    /\ calls[i].pc = "remote"
    /\ \E out \in RunOutcomes(calls[i].fn) :
          calls' = [calls EXCEPT ![i] = fetch_start(@, _client, out)]
    /\ UNCHANGED main_vars

\* tools.py:131-133  await open_key_value_store / set_value
FetchStore(i) ==
    /\ Runnable(i)
    /\ ~Blocked
    /\ calls[i].pc = "store"
    /\ \E ok \in BOOLEAN : calls' = [calls EXCEPT ![i] = yahoo_store(@, ok)]
    /\ UNCHANGED main_vars

FetchCharge(i) ==
    /\ Runnable(i)
    /\ ~Blocked
    /\ calls[i].pc = "charge"
    /\ calls' = [calls EXCEPT ![i] = fetch_charge(@)]
    /\ UNCHANGED main_vars

\* asyncio.gather(*tasks, return_exceptions=True): the result of each task,
\* in the order of the tasks list, an exception standing for a task that
\* raised.
gather(cs, ts) == [k \in 1..Len(ts) |-> cs[ts[k]].ret]

\* gather without return_exceptions: it returns as soon as a task raises.
AllDoneOrRaised(cs, ts) ==
    \/ \A k \in 1..Len(ts) : cs[ts[k]].pc \in {"returned", "raised"}
    \/ \E k \in 1..Len(ts) : cs[ts[k]].pc = "raised"

\* Whether the gather may return: every task returned or raised.
AllDone(cs, ts) == \A k \in 1..Len(ts) : Terminal(cs[ts[k]])

EmptyAssembly ==
    [data |-> [s \in Slots |-> None], writes |-> [s \in Slots |-> 0]]

\* main.py:132-158
MainJoin ==
    /\ pc = "gather"
    /\ AllDone(calls, tasks)
    /\ LET res == gather(calls, tasks)
           acc == Assemble(0, res, linkedin_task, crunchbase_task, EmptyAssembly)
       IN  /\ results' = res
           /\ company_data' = acc.data["company_data"]
           /\ sp500_data' = acc.data["sp500_data"]
           /\ sector_data' = acc.data["sector_data"]
           /\ linkedin_data' = acc.data["linkedin_data"]
           /\ crunchbase_data' = acc.data["crunchbase_data"]
           /\ slot_writes' = acc.writes
    /\ pc' = "check_company"
    /\ UNCHANGED <<_client, actor_input, start_date, end_date, company_info,
                   init_charges, llm_charges, calls, tasks, linkedin_task,
                   crunchbase_task, additional_context, writer_runs,
                   writer_result, report_writes, pushed, error>>

\* main.py:161-163
MainCheckCompany ==
    /\ pc = "check_company"
    /\ pc' = IF ~Truthy(company_data) THEN "aborted" ELSE "check_sp500"
    /\ UNCHANGED <<_client, actor_input, start_date, end_date, company_info,
                   init_charges, llm_charges, calls, tasks, linkedin_task,
                   crunchbase_task, results, company_data, sp500_data,
                   sector_data, linkedin_data, crunchbase_data, slot_writes,
                   additional_context, writer_runs, writer_result,
                   report_writes, pushed, error>>

\* main.py:166-172 and 174-180  the test of a slot and the call of the
\* re-fetch: pc after the step and the coroutine awaited, if any.
Refetch(slot_value, ticker, waiting, skipping) ==
    IF ~Truthy(slot_value)
    THEN [pc |-> waiting,
          calls |-> Append(calls, Coroutine("yahoo", YahooArgs(ticker), waiting))]
    ELSE [pc |-> skipping, calls |-> calls]

\* main.py:166-168
MainCheckSp500 ==
    /\ pc = "check_sp500"
    /\ LET r == Refetch(sp500_data, GSPC, "refetch_sp500", "check_sector")
       IN  pc' = r.pc /\ calls' = r.calls
    /\ UNCHANGED <<_client, actor_input, start_date, end_date, company_info,
                   init_charges, llm_charges, tasks, linkedin_task,
                   crunchbase_task, results, company_data, sp500_data,
                   sector_data, linkedin_data, crunchbase_data, slot_writes,
                   additional_context, writer_runs, writer_result,
                   report_writes, pushed, error>>

\* main.py:174-176
MainCheckSector ==
    /\ pc = "check_sector"
    /\ LET r == Refetch(sector_data, company_info.data.sector_index,
                        "refetch_sector", "context")
       IN  pc' = r.pc /\ calls' = r.calls
    /\ UNCHANGED <<_client, actor_input, start_date, end_date, company_info,
                   init_charges, llm_charges, tasks, linkedin_task,
                   crunchbase_task, results, company_data, sp500_data,
                   sector_data, linkedin_data, crunchbase_data, slot_writes,
                   additional_context, writer_runs, writer_result,
                   report_writes, pushed, error>>

\* main.py:168 and 176  the awaited re-fetch returned (or raised into
\* main): its value is assigned to the slot that was tested.
MainRefetched ==
    /\ pc \in {"refetch_sp500", "refetch_sector"}
    /\ Terminal(calls[Len(calls)])
    /\ LET c == calls[Len(calls)]
       IN  /\ pc' = IF c.pc = "raised" THEN "failed"
                    ELSE IF pc = "refetch_sp500" THEN "check_sector"
                    ELSE "context"
           /\ error' = IF c.pc = "raised" THEN c.ret ELSE error
           /\ sp500_data' = IF c.pc # "raised" /\ pc = "refetch_sp500"
                            THEN c.ret ELSE sp500_data
           /\ sector_data' = IF c.pc # "raised" /\ pc = "refetch_sector"
                             THEN c.ret ELSE sector_data
    /\ UNCHANGED <<_client, actor_input, start_date, end_date, company_info,
                   init_charges, llm_charges, calls, tasks, linkedin_task,
                   crunchbase_task, results, company_data, linkedin_data,
                   crunchbase_data, slot_writes, additional_context,
                   writer_runs, writer_result, report_writes, pushed>>

\* json.dumps(v): a list of dicts is serialisable, a pydantic model is not.
json_dumps(v) ==
    IF IsModel(v) THEN Exception("TypeError") ELSE [t |-> "str", json |-> v]

\* v.model_dump_json(), or the AttributeError of a value that has none.
DumpJson(v) == IF IsModel(v) THEN model_dump_json(v) ELSE Exception("AttributeError")

Section(title, label, body) == [section |-> title, label |-> label, body |-> body]

\* main.py:184-194  the sections of additional_context, in order, or the
\* first exception that building them raises.
AdditionalContext(sp500, sector, linkedin, crunchbase, sector_index) ==
    LET s1 == DumpJson(sp500)
        s2 == DumpJson(sector)
        s3 == IF Truthy(linkedin) THEN DumpJson(linkedin) ELSE None
        s4 == IF Truthy(crunchbase) THEN json_dumps(crunchbase) ELSE None
        opt(title, b) == IF b.t = "None" THEN <<>> ELSE <<Section(title, <<>>, b)>>
    IN  IF s1.t = "Exception" THEN s1
        ELSE IF s2.t = "Exception" THEN s2
        ELSE IF s3.t = "Exception" THEN s3
        ELSE IF s4.t = "Exception" THEN s4
        ELSE [t |-> "str",
              sections |->
                 <<Section("S&P 500 Comparison Data", <<>>, s1),
                   Section("Sector Index Comparison Data", sector_index, s2)>>
                 \o opt("LinkedIn Company Data", s3)
                 \o opt("Crunchbase Company Data", s4)]

\* main.py:184-194
MainContext ==
    /\ pc = "context"
    /\ LET ctx == AdditionalContext(sp500_data, sector_data, linkedin_data,
                                    crunchbase_data,
                                    company_info.data.sector_index)
       IN  IF ctx.t = "Exception"
           THEN pc' = "failed" /\ error' = ctx /\ UNCHANGED additional_context
           ELSE pc' = "writer" /\ additional_context' = ctx /\ UNCHANGED error
    /\ UNCHANGED <<_client, actor_input, start_date, end_date, company_info,
                   init_charges, llm_charges, calls, tasks, linkedin_task,
                   crunchbase_task, results, company_data, sp500_data,
                   sector_data, linkedin_data, crunchbase_data, slot_writes,
                   writer_runs, writer_result, report_writes, pushed>>

\* main.py:198-202  the prompt finance_writer.run is given.
WriterPrompt ==
    [ticker |-> actor_input.company_ticker,
     yahoo |-> DumpJson(company_data),
     context |-> additional_context.sections]

\* main.py:198-202  finance_writer.run returns a ReportInfo and its usage.
MainWriter ==
    /\ pc = "writer"
    /\ WriterPrompt.yahoo.t # "Exception"
    /\ writer_runs' = Append(writer_runs, WriterPrompt)
    /\ \E report \in ReportChoices, tok \in TokenChoices :
          writer_result' = [t |-> "AgentRunResult",
                            data |-> [report |-> report],
                            total_tokens |-> tok]
    /\ pc' = "charge_writer"
    /\ UNCHANGED <<_client, actor_input, start_date, end_date, company_info,
                   init_charges, llm_charges, calls, tasks, linkedin_task,
                   crunchbase_task, results, company_data, sp500_data,
                   sector_data, linkedin_data, crunchbase_data, slot_writes,
                   additional_context, report_writes, pushed, error>>

\* main.py:198-202  finance_writer.run raises, or building its prompt does:
\* nothing in main catches it.
MainWriterRaises ==
    /\ pc = "writer"
    /\ IF WriterPrompt.yahoo.t = "Exception"
       THEN error' = WriterPrompt.yahoo /\ UNCHANGED writer_runs
       ELSE /\ error' = Exception("finance_writer")
            /\ writer_runs' = Append(writer_runs, WriterPrompt)
    /\ pc' = "failed"
    /\ UNCHANGED <<_client, actor_input, start_date, end_date, company_info,
                   init_charges, llm_charges, calls, tasks, linkedin_task,
                   crunchbase_task, results, company_data, sp500_data,
                   sector_data, linkedin_data, crunchbase_data, slot_writes,
                   additional_context, writer_result, report_writes, pushed>>

\* main.py:204-205 left out: the report is stored without the charge.
MainWriterUncharged ==
    /\ pc = "charge_writer"
    /\ pc' = "store_report"
    /\ UNCHANGED <<_client, actor_input, start_date, end_date, company_info,
                   init_charges, llm_charges, calls, tasks, linkedin_task,
                   crunchbase_task, results, company_data, sp500_data,
                   sector_data, linkedin_data, crunchbase_data, slot_writes,
                   additional_context, writer_runs, writer_result,
                   report_writes, pushed, error>>

\* main.py:204-205
MainChargeWriter ==
    /\ pc = "charge_writer"
    /\ llm_charges' = Append(llm_charges, CeilDiv1000(writer_result.total_tokens))
    /\ pc' = "store_report"
    /\ UNCHANGED <<_client, actor_input, start_date, end_date, company_info,
                   init_charges, calls, tasks, linkedin_task, crunchbase_task,
                   results, company_data, sp500_data, sector_data,
                   linkedin_data, crunchbase_data, slot_writes,
                   additional_context, writer_runs, writer_result,
                   report_writes, pushed, error>>

\* The write of the report without its try block: a failure ends main().
MainStoreReportStrict ==
    /\ pc = "store_report"
    /\ \E ok \in BOOLEAN :
          /\ report_writes' =
                IF ok
                THEN Append(report_writes,
                            [key |-> report_key(actor_input.company_ticker,
                                                start_date, end_date),
                             value |-> writer_result.data.report,
                             content_type |-> "text/markdown"])
                ELSE report_writes
          /\ pc' = IF ok THEN "push" ELSE "failed"
          /\ error' = IF ok THEN error ELSE Exception("KeyValueStoreError")
    /\ UNCHANGED <<_client, actor_input, start_date, end_date, company_info,
                   init_charges, llm_charges, calls, tasks, linkedin_task,
                   crunchbase_task, results, company_data, sp500_data,
                   sector_data, linkedin_data, crunchbase_data, slot_writes,
                   additional_context, writer_runs, writer_result, pushed>>

\* main.py:208-217  the best-effort write of the report; a failure of
\* open_key_value_store or set_value is swallowed.
MainStoreReport ==
    /\ pc = "store_report"
    /\ \E ok \in BOOLEAN :
          report_writes' =
              IF ok
              THEN Append(report_writes,
                          [key |-> report_key(actor_input.company_ticker,
                                              start_date, end_date),
                           value |-> writer_result.data.report,
                           content_type |-> "text/markdown"])
              ELSE report_writes
    /\ pc' = "push"
    /\ UNCHANGED <<_client, actor_input, start_date, end_date, company_info,
                   init_charges, llm_charges, calls, tasks, linkedin_task,
                   crunchbase_task, results, company_data, sp500_data,
                   sector_data, linkedin_data, crunchbase_data, slot_writes,
                   additional_context, writer_runs, writer_result, pushed,
                   error>>

\* v.model_dump(), or the AttributeError of a value that has none.
Dump(v) == IF IsModel(v) THEN model_dump(v) ELSE Exception("AttributeError")

\* d[key] = dump when the slot is truthy (main.py:226-238).
WithKey(d, key, slot_value, dump) ==
    IF Truthy(slot_value) THEN (key :> dump) @@ d ELSE d

\* main.py:220-238  output_data, or the first exception building it raises.
OutputData(company, report, sp500, sector, linkedin, crunchbase) ==
    LET bad(v) == Truthy(v) /\ ~IsModel(v)
    IN  IF ~IsModel(company) THEN Exception("AttributeError")
        ELSE IF bad(sp500) \/ bad(sector) \/ bad(linkedin)
        THEN Exception("AttributeError")
        ELSE LET d0 == ("report" :> report) @@ model_dump(company)
                 d1 == WithKey(d0, "sp500_data", sp500, Dump(sp500))
                 d2 == WithKey(d1, "sector_data", sector, Dump(sector))
                 d3 == WithKey(d2, "linkedin_data", linkedin, Dump(linkedin))
             IN  WithKey(d3, "crunchbase_data", crunchbase, crunchbase)

\* main.py:220-240 with push_data called twice.
MainPushTwice ==
    /\ pc = "push"
    /\ LET out == OutputData(company_data, writer_result.data.report,
                             sp500_data, sector_data, linkedin_data,
                             crunchbase_data)
       IN  IF "t" \in DOMAIN out
           THEN pc' = "failed" /\ error' = out /\ UNCHANGED pushed
           ELSE pc' = "done" /\ pushed' = pushed \o <<out, out>> /\ UNCHANGED error
    /\ UNCHANGED <<_client, actor_input, start_date, end_date, company_info,
                   init_charges, llm_charges, calls, tasks, linkedin_task,
                   crunchbase_task, results, company_data, sp500_data,
                   sector_data, linkedin_data, crunchbase_data, slot_writes,
                   additional_context, writer_runs, writer_result,
                   report_writes>>

\* main.py:220-240
MainPush ==
    /\ pc = "push"
    /\ LET out == OutputData(company_data, writer_result.data.report,
                             sp500_data, sector_data, linkedin_data,
                             crunchbase_data)
       IN  IF "t" \in DOMAIN out
           THEN pc' = "failed" /\ error' = out /\ UNCHANGED pushed
           ELSE pc' = "done" /\ pushed' = Append(pushed, out) /\ UNCHANGED error
    /\ UNCHANGED <<_client, actor_input, start_date, end_date, company_info,
                   init_charges, llm_charges, calls, tasks, linkedin_task,
                   crunchbase_task, results, company_data, sp500_data,
                   sector_data, linkedin_data, crunchbase_data, slot_writes,
                   additional_context, writer_runs, writer_result,
                   report_writes>>

-----------------------------------------------------------------------------

\* The state main() has not touched yet.
Untouched ==
    /\ start_date = 0
    /\ end_date = 0
    /\ company_info = None
    /\ init_charges = <<>>
    /\ llm_charges = <<>>
    /\ tasks = <<>>
    /\ linkedin_task = None
    /\ crunchbase_task = None
    /\ results = <<>>
    /\ company_data = None
    /\ sp500_data = None
    /\ sector_data = None
    /\ linkedin_data = None
    /\ crunchbase_data = None
    /\ slot_writes = [s \in Slots |-> 0]
    /\ additional_context = None
    /\ writer_runs = <<>>
    /\ writer_result = None
    /\ report_writes = <<>>
    /\ pushed = <<>>
    /\ error = None

\* main.py:17-21 and 48-50: the module is imported (set_client has run) and
\* main() is about to read its input.
Init ==
    /\ _client = ApifyClient
    /\ pc = "start"
    /\ \E ticker \in CompanyTickers :
          \/ actor_input = [company_ticker |-> ticker]
          \/ \E d \in PastDaysInputs :
                actor_input = [company_ticker |-> ticker, past_days |-> d]
    /\ calls = <<>>
    /\ Untouched

Next ==
    \/ MainStart
    \/ MainResolve
    \/ MainResolveRaises
    \/ MainChargeResolver
    \/ MainBuildTasks
    \/ \E i \in 1..Len(calls) : FetchStart(i)
    \/ \E i \in 1..Len(calls) : FetchRemote(i)
    \/ \E i \in 1..Len(calls) : FetchStore(i)
    \/ \E i \in 1..Len(calls) : FetchCharge(i)
    \/ MainJoin
    \/ MainCheckCompany
    \/ MainCheckSp500
    \/ MainCheckSector
    \/ MainRefetched
    \/ MainContext
    \/ MainWriter
    \/ MainWriterRaises
    \/ MainChargeWriter
    \/ MainStoreReport
    \/ MainPush

Spec == Init /\ [][Next]_vars

\* The event loop runs whatever can run, and every awaited call (a remote
\* job, a model call, a write, a charge) comes back, with a value or an
\* exception: main() does not stop while it has a step to take.
LiveSpec == Spec /\ WF_vars(Next)

-----------------------------------------------------------------------------
(* One fetcher called on its own, as a caller other than main() may call   *)
(* it: with or without set_client having run, and with every answer the    *)
(* remote job can give.                                                    *)

FetcherTickers == {ACME, GSPC, XLK, EmptyStr}
FetcherMaxResults == {1, 3, 15}

FetcherCalls ==
    {Coroutine("yahoo", [end_date |-> Now, start_date |-> Now - DefaultPastDays,
                         ticker |-> ticker], "call") :
        ticker \in FetcherTickers}

FetcherInit ==
    /\ _client \in {None, ApifyClient}
    /\ pc = "call"
    /\ actor_input = None
    /\ \/ calls \in {<<c>> : c \in FetcherCalls}
       \/ calls = <<Coroutine("linkedin",
                              [linkedin_company_url |-> <<"l", "i">>], "call")>>
       \/ calls = <<Coroutine("crunchbase",
                              [crunchbase_company_url |-> <<"c", "b">>], "call")>>
       \/ \E n \in FetcherMaxResults :
             calls = <<Coroutine("search",
                                 [query |-> "acme", max_results |-> n], "call")>>
    /\ Untouched

\* The fetcher is called and reaches its remote job, or raises.
CallStart ==
    /\ pc = "call"
    /\ calls[1].pc = "pending"
    /\ calls' = [calls EXCEPT ![1] = fetch_enter(@, _client)]
    /\ UNCHANGED main_vars

\* The fetcher runs to its first await, whatever the remote job answers.
CallRemote ==
    /\ pc = "call"
    /\ calls[1].pc = "remote"
    /\ \E out \in RemoteOutcomes(calls[1].fn) :
          calls' = [calls EXCEPT ![1] = fetch_start(@, _client, out)]
    /\ UNCHANGED main_vars

\* The caller gets the fetcher's value, or its exception.
CallEnd ==
    /\ pc = "call"
    /\ Terminal(calls[1])
    /\ pc' = IF calls[1].pc = "raised" THEN "failed" ELSE "returned"
    /\ error' = IF calls[1].pc = "raised" THEN calls[1].ret ELSE error
    /\ results' = IF calls[1].pc = "raised" THEN results ELSE <<calls[1].ret>>
    /\ UNCHANGED <<_client, actor_input, start_date, end_date, company_info,
                   init_charges, llm_charges, calls, tasks, linkedin_task,
                   crunchbase_task, company_data, sp500_data, sector_data,
                   linkedin_data, crunchbase_data, slot_writes,
                   additional_context, writer_runs, writer_result,
                   report_writes, pushed>>

FetcherNext ==
    \/ CallStart
    \/ CallRemote
    \/ FetchStore(1)
    \/ FetchCharge(1)
    \/ CallEnd

FetcherSpec == FetcherInit /\ [][FetcherNext]_vars

-----------------------------------------------------------------------------
(* The charge for the resolver's tokens, for every count of tokens the     *)
(* call can report: main() has read its input and company_finder.run has   *)
(* just returned.                                                          *)

UsageInit ==
    /\ _client = ApifyClient
    /\ pc = "charge_resolver"
    /\ actor_input \in {[company_ticker |-> ticker] : ticker \in CompanyTickers}
    /\ calls = <<>>
    /\ end_date = Now
    /\ start_date = Now - DefaultPastDays
    /\ init_charges = <<1>>
    /\ \E tok \in 0..MaxTokens, sec \in SectorChoices :
          company_info =
              [t |-> "AgentRunResult",
               data |-> [linkedin_url |-> EmptyStr, crunchbase_url |-> EmptyStr,
                         sector_index |-> sec],
               total_tokens |-> tok]
    /\ llm_charges = <<>>
    /\ tasks = <<>>
    /\ linkedin_task = None
    /\ crunchbase_task = None
    /\ results = <<>>
    /\ company_data = None
    /\ sp500_data = None
    /\ sector_data = None
    /\ linkedin_data = None
    /\ crunchbase_data = None
    /\ slot_writes = [s \in Slots |-> 0]
    /\ additional_context = None
    /\ writer_runs = <<>>
    /\ writer_result = None
    /\ report_writes = <<>>
    /\ pushed = <<>>
    /\ error = None

UsageNext == MainChargeResolver \/ MainBuildTasks

UsageSpec == UsageInit /\ [][UsageNext]_vars

-----------------------------------------------------------------------------
(* The claims.  A fetch failed when its remote job raised or left no item, *)
(* and succeeded when it returned what it built from the job's first item. *)

RemoteFailed(c) == c.remote \in {"raised", "empty"}
FetchSucceeded(c) == c.pc = "returned" /\ c.remote = "items"
Joined == Len(results) > 0 /\ Len(tasks) > 0
Links == company_info.data

\* The value a fetcher's failure path is to return.
DefaultOf(c) ==
    CASE c.fn = "yahoo" ->
            DefaultYahooFinanceData(c.args.ticker, c.args.start_date,
                                    c.args.end_date)
      [] c.fn = "linkedin" -> EmptyLinkedInData
      [] OTHER -> List(<<>>)

\* C1: when the primary market-data fetch fails (the remote job raises or
\* leaves no item), finance_writer.run is never invoked and no record is
\* pushed in that run.
C1_PrimaryFailureAborts ==
    (Len(tasks) > 0 /\ RemoteFailed(calls[tasks[1]]))
        => (writer_runs = <<>> /\ pushed = <<>>)

\* The index (in calls) of the task created for the sector slot, 0 if none.
SectorTask == IF StrTruthy(Links.sector_index) THEN 3 ELSE 0
\* Whether slot value v is exactly what task i returned.
HoldsResultOf(v, i) ==
    /\ i > 0
    /\ calls[i].pc = "returned"
    /\ v.t = calls[i].ret.t
    /\ v = calls[i].ret
TaskIndex(task) == IF task.t = "coroutine" THEN task.index ELSE 0
Requested(i) == i > 0
Pushed(key) == Len(pushed) > 0 /\ key \in DOMAIN pushed[1]

\* C2: after the join each of the sector, LinkedIn and Crunchbase slots
\* holds nothing but the result of the task created for that slot, and the
\* pushed record has an optional sub-object exactly when that slot's own
\* fetch was requested and succeeded.
C2_SlotsByTaskIdentity ==
    /\ (Joined /\ pc = "check_company") =>
          /\ sector_data.t # "None" => HoldsResultOf(sector_data, SectorTask)
          /\ linkedin_data.t # "None" =>
                HoldsResultOf(linkedin_data, TaskIndex(linkedin_task))
          /\ crunchbase_data.t # "None" =>
                HoldsResultOf(crunchbase_data, TaskIndex(crunchbase_task))
    /\ Len(pushed) > 0 =>
          /\ Pushed("linkedin_data") <=>
                /\ Requested(TaskIndex(linkedin_task))
                /\ FetchSucceeded(calls[TaskIndex(linkedin_task)])
          /\ Pushed("crunchbase_data") <=>
                /\ Requested(TaskIndex(crunchbase_task))
                /\ FetchSucceeded(calls[TaskIndex(crunchbase_task)])

\* C3: when the ^GSPC fetch of the fan-out fails, main fetches ^GSPC a
\* second time before the report is generated, and when that second fetch
\* succeeds sp500_data in the pushed record is its snapshot.
C3_BenchmarkRefetched ==
    (Len(writer_runs) > 0 /\ RemoteFailed(calls[tasks[2]])) =>
        \E i \in 1..Len(calls) :
            /\ calls[i].phase = "refetch_sp500"
            /\ Terminal(calls[i])
            /\ FetchSucceeded(calls[i]) =>
                  /\ sp500_data = calls[i].ret
                  /\ Len(pushed) > 0 =>
                        pushed[1]["sp500_data"] = model_dump(calls[i].ret)

\* C4: with the client configured, an exception raised by the remote job of
\* any of the four fetchers never reaches the caller: the fetcher returns
\* its default value instead.
C4_RemoteExceptionsSwallowed ==
    (pc \in {"call", "returned", "failed"} /\ Truthy(_client)
        /\ calls[1].remote = "raised") =>
        /\ calls[1].pc # "raised"
        /\ pc # "failed"
        /\ calls[1].pc = "returned" => calls[1].ret = DefaultOf(calls[1])

\* The value of a slot, by its name.
SlotValue(slot) ==
    CASE slot = "company_data" -> company_data
      [] slot = "sp500_data" -> sp500_data
      [] slot = "sector_data" -> sector_data
      [] slot = "linkedin_data" -> linkedin_data
      [] slot = "crunchbase_data" -> crunchbase_data

TaskRaised(k) == calls[tasks[k]].pc = "raised"
TaskReturned(k) == calls[tasks[k]].pc = "returned"
FetchStep ==
    \E i \in 1..Len(calls) :
        FetchStart(i) \/ FetchRemote(i) \/ FetchStore(i) \/ FetchCharge(i)

\* C5: the assembly of the results starts only when every gathered task has
\* returned or raised; a task that raised stops no sibling from running,
\* does not make the join raise, and leaves only its own slot empty: the
\* join hands over every sibling's result, in the order of the tasks.
C5_JoinWaitsAndIsolates ==
    /\ (Joined \/ pc \notin {"start", "resolve", "charge_resolver",
                             "build_tasks", "gather", "failed", "call",
                             "returned"}) =>
          \A k \in 1..Len(tasks) : TaskRaised(k) \/ TaskReturned(k)
    /\ (pc = "gather" /\ \E k \in 1..Len(tasks) : ~Terminal(calls[tasks[k]])) =>
          ENABLED FetchStep
    /\ pc = "check_company" =>
          /\ error.t = "None"
          /\ Len(results) = Len(tasks)
          /\ \A k \in 1..Len(tasks) :
                /\ TaskReturned(k) => results[k] = calls[tasks[k]].ret
                /\ TaskRaised(k) =>
                      /\ results[k].t = "Exception"
                      /\ calls[tasks[k]].fn = "crunchbase"
                      /\ crunchbase_data.t = "None"
          /\ \A slot \in Slots : SlotValue(slot).t # "Exception"
          /\ TaskReturned(1) => company_data = calls[tasks[1]].ret
          /\ TaskReturned(2) => sp500_data = calls[tasks[2]].ret

\* C5's case: the join returned although one task raised, all four of its
\* siblings having run to their return.
C5_Witness ==
    /\ pc = "check_company"
    /\ Len(tasks) = 5
    /\ TaskRaised(5)
    /\ \A k \in 1..4 : TaskReturned(k) /\ FetchSucceeded(calls[tasks[k]])

\* The sections of the prompt finance_writer.run was given.
ContextHas(title) ==
    /\ Len(writer_runs) > 0
    /\ \E j \in 1..Len(writer_runs[1].context) :
          writer_runs[1].context[j].section = title

OwnFetchOk(task) ==
    Requested(TaskIndex(task)) /\ FetchSucceeded(calls[TaskIndex(task)])

\* C6: in a run that pushes a record, a LinkedIn or Crunchbase fetch that
\* was not requested or that failed leaves its sub-object out of the pushed
\* record and out of the report generator's context.
C6_FailedOptionalOmitted ==
    Len(pushed) > 0 =>
        /\ ~OwnFetchOk(linkedin_task) =>
              ~Pushed("linkedin_data") /\ ~ContextHas("LinkedIn Company Data")
        /\ ~OwnFetchOk(crunchbase_task) =>
              ~Pushed("crunchbase_data") /\ ~ContextHas("Crunchbase Company Data")

\* C7: when the resolver's sector_index is empty no sector-index fetch is
\* ever made, in the fan-out or as a re-fetch: every market-data fetch is
\* the primary one or one for ^GSPC.
C7_NoSectorFetchWithoutTicker ==
    (company_info.t # "None" /\ pc # "call" /\ ~StrTruthy(Links.sector_index)) =>
        \A i \in 1..Len(calls) :
            calls[i].fn = "yahoo" =>
                /\ calls[i].phase # "refetch_sector"
                /\ i \in {1, 2} \/ calls[i].phase = "refetch_sp500"

\* The market-data fetches made for the benchmark slot and the sector slot.
BenchmarkAttempts ==
    {i \in 1..Len(calls) :
        (calls[i].phase = "fanout" /\ i = 2) \/ calls[i].phase = "refetch_sp500"}
SectorAttempts ==
    {i \in 1..Len(calls) :
        \/ calls[i].phase = "fanout" /\ i = 3 /\ calls[i].fn = "yahoo"
        \/ calls[i].phase = "refetch_sector"}
Ended == pc \in {"done", "failed", "aborted"}
CollaboratorFailed ==
    error.t = "Exception" /\ error.kind \in {"company_finder", "finance_writer"}
AllFailed(attempts) ==
    attempts # {} /\ \A i \in attempts : Terminal(calls[i]) /\ RemoteFailed(calls[i])
Last(attempts) == CHOOSE i \in attempts : \A j \in attempts : j <= i
ProceedsWithDefault(attempts, key) ==
    (Ended /\ ~CollaboratorFailed /\ AllFailed(attempts)) =>
        /\ pc = "done"
        /\ Len(writer_runs) = 1
        /\ Pushed(key)
        /\ pushed[1][key] = model_dump(DefaultOf(calls[Last(attempts)]))

\* C8: the market-data fetcher is invoked at most twice for the benchmark
\* slot and at most twice for the sector slot, and a run whose attempts for
\* such a slot all fail still generates the report and pushes the record,
\* with the zero-filled default snapshot in that slot.
C8_RetryOnceThenDefault ==
    /\ Cardinality(BenchmarkAttempts) <= 2
    /\ Cardinality(SectorAttempts) <= 2
    /\ ProceedsWithDefault(BenchmarkAttempts, "sp500_data")
    /\ ProceedsWithDefault(SectorAttempts, "sector_data")

\* A zero-filled snapshot for ticker, with no quotes and no news.
ZeroSnapshot(v, ticker) ==
    /\ v.t = "YahooFinanceData"
    /\ v.ticker = ticker
    /\ v.quotes = <<>>
    /\ v.news = <<>>
    /\ \A k \in DOMAIN v.summary_detail : v.summary_detail[k] = 0
    /\ v.price.regular_market_price = 0
    /\ v.price.market_cap = 0
    /\ v.price.symbol = ticker

\* A profile with every field absent.
AbsentProfile(v) ==
    /\ v.t = "LinkedInData"
    /\ \A k \in DOMAIN v \ {"t"} : v[k] = <<>>

\* The default a fetcher is to return: v is what fetcher call c returned.
ValidDefault(c, v) ==
    CASE c.fn = "yahoo" -> ZeroSnapshot(v, c.args.ticker)
      [] c.fn = "linkedin" -> AbsentProfile(v)
      [] OTHER -> v.t = "list" /\ v.items = <<>>

\* C9: a fetcher whose remote job leaves a dataset of zero items raises
\* nothing to its caller and returns its default: a zero-filled snapshot
\* with no quotes and no news for the requested ticker, a profile with
\* every field absent, or an empty sequence.
C9_EmptyDatasetGivesDefault ==
    (pc \in {"call", "returned", "failed"} /\ calls[1].remote = "empty") =>
        /\ calls[1].pc # "raised"
        /\ pc # "failed"
        /\ error.t = "None"
        /\ calls[1].pc = "returned" => ValidDefault(calls[1], calls[1].ret)
        /\ pc = "returned" =>
              Len(results) = 1 /\ ValidDefault(calls[1], results[1])

\* C9's case: the market-data fetcher handed its caller the default
\* snapshot of an index ticker after the remote job left no item.
C9_Witness ==
    /\ pc = "returned"
    /\ calls[1].fn = "yahoo"
    /\ calls[1].args.ticker = GSPC
    /\ calls[1].remote = "empty"
    /\ ZeroSnapshot(results[1], GSPC)

\* The run of C10: a profile URL, no startup URL, sector ticker ^XLK, and
\* the primary, benchmark, sector and profile fetches all succeeded.
C10_Resolved ==
    /\ pc # "call"
    /\ company_info.t # "None"
    /\ StrTruthy(Links.linkedin_url)
    /\ Links.crunchbase_url = EmptyStr
    /\ Links.sector_index = XLK
C10_Scenario ==
    /\ C10_Resolved
    /\ Len(tasks) = 4
    /\ \A k \in 1..4 : FetchSucceeded(calls[tasks[k]])

\* C10: in that run the Crunchbase fetcher is never invoked, and unless the
\* report generator fails exactly one record is pushed; it has sp500_data,
\* sector_data, the profile (linkedin_data) and the generator's report,
\* non-empty as the generator returned it, and no crunchbase_data.
C10_EndToEnd ==
    /\ C10_Resolved => \A i \in 1..Len(calls) : calls[i].fn # "crunchbase"
    /\ C10_Scenario =>
          /\ Len(pushed) <= 1
          /\ (Ended /\ ~CollaboratorFailed) =>
                /\ pc = "done"
                /\ Len(pushed) = 1
                /\ Pushed("sp500_data")
                /\ pushed[1]["sp500_data"] = model_dump(calls[2].ret)
                /\ Pushed("sector_data")
                /\ pushed[1]["sector_data"] = model_dump(calls[3].ret)
                /\ Pushed("linkedin_data")
                /\ pushed[1]["linkedin_data"] = model_dump(calls[4].ret)
                /\ ~Pushed("crunchbase_data")
                /\ Pushed("report")
                /\ pushed[1]["report"] = writer_result.data.report
                /\ writer_runs[1].context[2].label = XLK

\* C10's case: the run ended with its one record pushed, the report in it
\* non-empty.
C10_Witness ==
    /\ C10_Scenario
    /\ pc = "done"
    /\ Len(pushed) = 1
    /\ pushed[1]["report"] # ""
    /\ DOMAIN pushed[1]["linkedin_data"] = DOMAIN EmptyLinkedInData \ {"t"}

\* Whether main() is past the call of company_finder.run, which returned.
ResolverReturned == company_info.t # "None" /\ pc \notin {"call", "returned"}

\* C11: once the resolver has returned, its 1k-llm-tokens charge is emitted
\* before any of the resolved fields is read and before any fetch task is
\* created: a run that has a coroutine, or that is over, has the charge,
\* whatever the links are and however the run ends.
C11_ResolverChargedFirst ==
    /\ pc = "charge_resolver" =>
          /\ llm_charges = <<>>
          /\ calls = <<>> /\ tasks = <<>>
          /\ linkedin_task = None /\ crunchbase_task = None
    /\ (ResolverReturned /\ pc # "charge_resolver") =>
          /\ Len(llm_charges) >= 1
          /\ llm_charges[1] = CeilDiv1000(company_info.total_tokens)
    /\ (pc \notin {"call", "returned", "failed"} /\ Len(calls) > 0) =>
          Len(llm_charges) >= 1

\* C11's case: the run is over without a record, the resolver having found
\* no link at all, and the charge for the resolver was recorded.
C11_Witness ==
    /\ ResolverReturned
    /\ pc = "failed"
    /\ Links.linkedin_url = EmptyStr
    /\ Links.crunchbase_url = EmptyStr
    /\ Links.sector_index = EmptyStr
    /\ pushed = <<>>
    /\ Len(llm_charges) = 1

\* Whether count is the least number of thousands that covers tokens.
IsCeilOfThousands(count, tokens) ==
    /\ count * 1000 >= tokens
    /\ (count - 1) * 1000 < tokens
    /\ tokens = 2500 => count = 3
    /\ tokens = 1000 => count = 1

\* C12: the count of each 1k-llm-tokens charge is ceil(total_tokens / 1000)
\* of the call it is for, the resolver's first and the report generator's
\* second: 3 for 2500 tokens, 1 for 1000, never less than the thousandth.
C12_ChargeIsCeiling ==
    /\ Len(llm_charges) >= 1 =>
          IsCeilOfThousands(llm_charges[1], company_info.total_tokens)
    /\ Len(llm_charges) >= 2 =>
          IsCeilOfThousands(llm_charges[2], writer_result.total_tokens)
    /\ Len(llm_charges) <= 2

\* C12's case: 2500 tokens were charged as 3.
C12_Witness ==
    /\ Len(llm_charges) >= 1
    /\ company_info.total_tokens = 2500
    /\ llm_charges[1] = 3

RECURSIVE SumSeq(_)
SumSeq(q) == IF Len(q) = 0 THEN 0 ELSE q[1] + SumSeq(Tail(q))

\* The number of result records fetcher call c obtained and returned.
RecordsObtained(c) ==
    IF c.ret.t = "list" THEN Len(c.ret.items)
    ELSE IF c.remote = "items" /\ c.ret # DefaultOf(c) THEN 1
    ELSE 0

\* C13: a fetcher call that returned has emitted tool_result charges whose
\* count is the number of records it obtained: 1 for the snapshot, profile
\* or startup record it retrieved and returned, 0 or no charge when it
\* retrieved none.
C13_ChargeCountsRecords ==
    \A i \in 1..Len(calls) :
        calls[i].pc = "returned" =>
            SumSeq(calls[i].charged) = RecordsObtained(calls[i])

\* C14: the resolver step never raises into main(): once main() is past
\* it, it holds a CompanyLinks (a field that was not found being the empty
\* str) and the run has not ended on an exception of company_finder.run.
C14_ResolverNeverRaises ==
    pc \notin {"start", "resolve", "call", "returned"} =>
        /\ ~(error.t = "Exception" /\ error.kind = "company_finder")
        /\ company_info.t = "AgentRunResult"
        /\ Links.linkedin_url \in LinkedinChoices
        /\ Links.crunchbase_url \in CrunchbaseChoices
        /\ Links.sector_index \in SectorChoices

\* The six company-only figures of snapshot v, market cap being held twice.
CompanyOnly(v) ==
    <<v.summary_detail.market_cap, v.summary_detail.trailing_pe,
      v.summary_detail.forward_pe,
      v.summary_detail.price_to_sales_trailing_12_months,
      v.summary_detail.payout_ratio, v.summary_detail.beta,
      v.price.market_cap>>

\* The same figures in the item the remote job left, 0 for a missing one.
Upstream(data) ==
    LET sd == data.results.summaryDetail
    IN  <<Get(sd, "marketCap", 0), Get(sd, "trailingPE", 0),
          Get(sd, "forwardPE", 0), Get(sd, "priceToSalesTrailing12Months", 0),
          Get(sd, "payoutRatio", 0), Get(sd, "beta", 0),
          Get(data.results.price, "marketCap", 0)>>

\* Whether the code can read item data: it has every key the code indexes.
Readable(data) == YahooFinanceData(data, ACME, 0, 0).t # "Exception"

\* Whether the first character of ticker is the index sentinel.
BeginsWithCaret(ticker) == ticker # <<>> /\ Head(ticker) = "^"

\* C15: the snapshot get_yahoo_finance_data returns for a ticker that
\* begins with '^' has market cap, trailing P/E, forward P/E,
\* price-to-sales, payout ratio and beta all 0, whatever the remote job
\* left; for any other ticker the snapshot built from the job's item has
\* the item's figures, 0 for a missing one (and the default snapshot, which
\* the fetcher returns when it got no item it can read, has 0).
C15_IndexFiguresZero ==
    \A i \in 1..Len(calls) :
        (calls[i].fn = "yahoo" /\ calls[i].pc = "returned") =>
            LET c == calls[i]
                zero == <<0, 0, 0, 0, 0, 0, 0>>
            IN  IF BeginsWithCaret(c.args.ticker) THEN CompanyOnly(c.ret) = zero
                ELSE IF c.remote = "items" /\ Readable(YahooItem(c.items[1]))
                THEN CompanyOnly(c.ret) = Upstream(YahooItem(c.items[1]))
                ELSE CompanyOnly(c.ret) = zero

\* C15's case: an index ticker whose item carried the figures.
C15_Witness ==
    /\ pc = "returned"
    /\ calls[1].fn = "yahoo"
    /\ calls[1].args.ticker = XLK
    /\ calls[1].remote = "items"
    /\ calls[1].items[1] = "full"
    /\ Upstream(YahooItem("full")) # <<0, 0, 0, 0, 0, 0, 0>>
    /\ results[1] = calls[1].local
    /\ CompanyOnly(results[1]) = <<0, 0, 0, 0, 0, 0, 0>>
    /\ results[1].summary_detail.previous_close = 10

\* C16: the assembly assigns each of the five slots at most once, and no
\* two results go to the same slot, whichever optional tasks were gathered.
C16_SlotWrittenOnce ==
    /\ \A slot \in Slots : slot_writes[slot] <= 1
    /\ Joined =>
          \A i, j \in 0..(Len(results) - 1) :
              LET si == SlotOf(i, linkedin_task, crunchbase_task)
                  sj == SlotOf(j, linkedin_task, crunchbase_task)
              IN  (i # j /\ si # "") => si # sj

\* C16's case: five tasks were gathered and each slot was assigned once.
C16_Witness ==
    /\ pc = "check_company"
    /\ Len(results) = 5
    /\ \A slot \in Slots : slot_writes[slot] = 1

\* C17: the gathered tasks execute concurrently: while one task is in its
\* remote job, a task that has not started can start (and so reach a state
\* in which both are in their remote job, neither having completed it).
C17_FetchesOverlap ==
    (/\ pc = "gather"
     /\ \E i \in 1..Len(calls) : calls[i].pc = "remote"
     /\ \E j \in 1..Len(calls) : calls[j].pc = "pending")
        => ENABLED (\E j \in 1..Len(calls) : FetchStart(j))

\* C18: the write of the report is best effort: whether it succeeded or
\* failed, a run whose report generator returned ends with the one record
\* pushed, and the record is made of the slots and the report alone.
C18_ReportStoreBestEffort ==
    /\ Len(report_writes) <= 1
    /\ (pc = "push" /\ report_writes = <<>>) => ENABLED MainPush
    /\ (Ended /\ Len(llm_charges) = 2) =>
          /\ pc = "done"
          /\ error = None
          /\ Len(pushed) = 1
          /\ pushed[1] = OutputData(company_data, writer_result.data.report,
                                    sp500_data, sector_data, linkedin_data,
                                    crunchbase_data)

\* C18's case: the write of the report failed and the record was pushed.
C18_Witness ==
    /\ pc = "done"
    /\ report_writes = <<>>
    /\ Len(pushed) = 1
    /\ pushed[1]["report"] = "# Report"

\* C19: a failure of the key-value store while get_yahoo_finance_data
\* persists the snapshot it built is swallowed: the call returns that
\* snapshot, not the default, and has emitted the tool_result charge of 1.
C19_SnapshotStoreBestEffort ==
    \A i \in 1..Len(calls) :
        LET c == calls[i]
        IN  (c.fn = "yahoo" /\ c.local.t = "YahooFinanceData") =>
                /\ c.pc \in {"store", "charge", "returned"}
                /\ c.local = YahooFinanceData(YahooItem(c.items[1]),
                                              c.args.ticker, c.args.start_date,
                                              c.args.end_date)
                /\ Len(c.stored) <= 1
                /\ c.pc = "returned" => c.ret = c.local /\ c.charged = <<1>>

\* C19's case: the write failed, and the caller got the snapshot.
C19_Witness ==
    /\ pc = "returned"
    /\ calls[1].fn = "yahoo"
    /\ calls[1].items = <<"full">>
    /\ calls[1].stored = <<>>
    /\ calls[1].charged = <<1>>
    /\ results[1] = calls[1].local
    /\ results[1] # DefaultOf(calls[1])

\* C20: a fetcher called while _client is unset raises at once: no remote
\* job is invoked, nothing is written or charged, and no value, default or
\* other, is returned.
C20_UnsetClientRaises ==
    (pc \in {"call", "returned", "failed"} /\ ~Truthy(_client)) =>
        /\ calls[1].pc \in {"pending", "raised"}
        /\ calls[1].remote = "none"
        /\ calls[1].items = <<>>
        /\ calls[1].charged = <<>>
        /\ calls[1].stored = <<>>
        /\ calls[1].pc = "raised" => calls[1].ret = Exception("ValueError")
        /\ pc # "returned"
        /\ results = <<>>
        /\ pc = "failed" => error = Exception("ValueError")

\* C20's case: the caller of a fetcher got the ValueError.
C20_Witness ==
    /\ pc = "failed"
    /\ ~Truthy(_client)
    /\ calls[1].fn = "crunchbase"
    /\ calls[1].pc = "raised"
    /\ error = Exception("ValueError")

\* Whether the run is one of main() (not a fetcher called on its own).
InMain == "company_ticker" \in DOMAIN actor_input

\* C21: the init charge, of count 1, is emitted exactly once, before every
\* other charge, before the resolver and every fetcher are invoked and
\* before anything is written to the key-value store or the dataset.
C21_InitChargedFirst ==
    /\ pc = "start" =>
          /\ init_charges = <<>>
          /\ llm_charges = <<>>
          /\ company_info = None
          /\ calls = <<>>
          /\ writer_runs = <<>>
          /\ report_writes = <<>>
          /\ pushed = <<>>
    /\ (InMain /\ pc # "start") => init_charges = <<1>>
    /\ Len(init_charges) <= 1

\* C21's case: a run that charged, fetched, stored its report and pushed
\* its record has the one init charge.
C21_Witness ==
    /\ pc = "done"
    /\ init_charges = <<1>>
    /\ Len(llm_charges) = 2
    /\ Len(report_writes) = 1
    /\ Len(pushed) = 1
    /\ \E i \in 1..Len(calls) : calls[i].charged = <<1>> /\ Len(calls[i].stored) = 1

\* C22: the report generator is invoked only after the join and the two
\* conditional re-fetches are over; its 1k-llm-tokens charge is emitted
\* after it has returned and before the report is stored and the record
\* pushed.
C22_WriterChargedInOrder ==
    /\ Len(writer_runs) > 0 =>
          /\ Joined
          /\ \A i \in 1..Len(calls) : Terminal(calls[i])
          /\ Truthy(sp500_data) /\ Truthy(sector_data)
          /\ pc \in {"writer", "charge_writer", "store_report", "push", "done",
                      "failed"}
    /\ pc = "charge_writer" =>
          /\ writer_result.t = "AgentRunResult"
          /\ Len(llm_charges) = 1
          /\ report_writes = <<>>
          /\ pushed = <<>>
    /\ Len(llm_charges) = 2 => writer_result.t = "AgentRunResult"
    /\ (pc \in {"store_report", "push", "done"}
            \/ report_writes # <<>> \/ pushed # <<>>) =>
          /\ Len(llm_charges) = 2
          /\ llm_charges[2] = CeilDiv1000(writer_result.total_tokens)

\* C22's case: the generator ran after a re-fetch, and its charge was
\* there when the record was pushed.
C22_Witness ==
    /\ pc = "done"
    /\ \E i \in 1..Len(calls) : calls[i].phase = "refetch_sector"
    /\ Len(llm_charges) = 2
    /\ Len(report_writes) = 1
    /\ Len(pushed) = 1

\* C23: a search_google call that returned has emitted one tool_result
\* charge, whose count is the length of the sequence it returned.
C23_SearchChargesReturned ==
    \A i \in 1..Len(calls) :
        (calls[i].fn = "search" /\ calls[i].pc = "returned") =>
            /\ calls[i].ret.t = "list"
            /\ calls[i].charged = <<Len(calls[i].ret.items)>>

\* C23's case: of two items one yielded text; 3 results were asked for and
\* 1 was charged.
C23_Witness ==
    /\ pc = "returned"
    /\ calls[1].fn = "search"
    /\ calls[1].args.max_results = 3
    /\ calls[1].items = <<"bare", "markdown">>
    /\ Len(results[1].items) = 1
    /\ calls[1].charged = <<1>>

\* The block each kind of item is to yield, <<>> for none: the title, URL
\* and description of a searchResult dict, then the Content section of a
\* non-empty markdown.
ExpectedBlock(id) ==
    CASE id = "markdown" -> <<<<"Content:\n", "Text", "\n">>>>
      [] id = "meta" ->
            <<<<"# ", "Acme", "\n\n", "URL: ", "acme.example", "\n\n",
                "Description: ", "About Acme", "\n\n">>>>
      [] id = "both" ->
            <<<<"# ", "Acme", "\n\n", "URL: ", "acme.example", "\n\n",
                "Description: ", "About Acme", "\n\n",
                "Content:\n", "Body", "\n">>>>
      [] id = "url" ->
            <<<<"URL: ", "u.example", "\n\n", "Content:\n", "Page", "\n">>>>
      [] OTHER -> <<>>

RECURSIVE ExpectedBlocks(_)
ExpectedBlocks(ids) ==
    IF Len(ids) = 0 THEN <<>>
    ELSE ExpectedBlock(ids[1]) \o ExpectedBlocks(Tail(ids))

\* C24: search_google returns one block for each item that yields text, in
\* the order of the items: an item with a markdown and no searchResult
\* gives the Content section alone, an item with nothing usable gives no
\* block.
C24_SearchBlocks ==
    \A i \in 1..Len(calls) :
        (calls[i].fn = "search" /\ calls[i].pc = "returned") =>
            /\ calls[i].ret.items = ExpectedBlocks(calls[i].items)
            /\ \A k \in 1..Len(calls[i].ret.items) : calls[i].ret.items[k] # <<>>

\* C24's case: an item with nothing usable, then one with a markdown only.
C24_Witness ==
    /\ pc = "returned"
    /\ calls[1].fn = "search"
    /\ calls[1].items = <<"blank", "markdown">>
    /\ results[1].items = <<<<"Content:\n", "Text", "\n">>>>

\* C25: a run whose primary fetch succeeded, and whose report generator
\* does not fail, eventually pushes its record, whatever links the resolver
\* found and whatever became of the optional fetches.
C25_EventuallyPushes ==
    (InMain /\ Joined /\ FetchSucceeded(calls[tasks[1]]))
        ~> (Len(pushed) = 1
            \/ (error.t = "Exception" /\ error.kind = "finance_writer"))

\* C26: the report generator is invoked at most once and at most one
\* record is pushed, and none before the generator has returned.
C26_OneReportOneRecord ==
    /\ Len(writer_runs) <= 1
    /\ Len(pushed) <= 1
    /\ Len(pushed) > 0 =>
          /\ Len(writer_runs) = 1
          /\ writer_result.t = "AgentRunResult"
          /\ pushed[1]["report"] = writer_result.data.report
    /\ (InMain /\ pc \notin {"push", "done"}) => pushed = <<>>

\* C26's case: the run is over, the generator was invoked once and one
\* record was pushed.
C26_Witness ==
    /\ pc = "done"
    /\ Len(writer_runs) = 1
    /\ Len(pushed) = 1
    /\ Len(calls) = 5

\* C27: a get_yahoo_finance_data call whose remote job raised or left no
\* item writes nothing to the key-value store and emits no charge, and the
\* default snapshot it returns has the ticker, start_date and end_date of
\* the call.
C27_FailurePathFrame ==
    \A i \in 1..Len(calls) :
        LET c == calls[i]
        IN  (c.fn = "yahoo" /\ RemoteFailed(c)) =>
                /\ c.pc = "returned"
                /\ c.stored = <<>>
                /\ c.charged = <<>>
                /\ c.local = None
                /\ ZeroSnapshot(c.ret, c.args.ticker)
                /\ c.ret.ticker = c.args.ticker
                /\ c.ret.start_date = c.args.start_date
                /\ c.ret.end_date = c.args.end_date

\* C27's case: the remote job raised, and the caller got the default
\* snapshot of its ticker and dates.
C27_Witness ==
    /\ pc = "returned"
    /\ calls[1].fn = "yahoo"
    /\ calls[1].remote = "raised"
    /\ calls[1].args.ticker = ACME
    /\ results[1].ticker = ACME
    /\ results[1].start_date = Now - DefaultPastDays
    /\ results[1].end_date = Now
    /\ calls[1].charged = <<>>
    /\ calls[1].stored = <<>>

====
